---- MODULE Spec2Model ----
(***************************************************************************)
(* Model of the Nintendo DOL header loader (src/__init__.py):              *)
(*   parseSections, parseHeader (with the BSS carving sweep),              *)
(*   validateHeader, DOLView.is_valid_for_data and DOLView.init.           *)
(*                                                                         *)
(* Units.  TLC integers are 32-bit signed, so the loadable range           *)
(* 0x80000000..0x81800000 cannot be written in bytes.  Addresses, sizes,   *)
(* file offsets and the file size are therefore counted in units of        *)
(* 0x800000 bytes: 0x80000000 = 256 units, 0x81800000 = 259 units.  Python *)
(* integers are unbounded, so no sum in the source wraps and none wraps    *)
(* here.  The length of the header read (0xE4) is kept in bytes.           *)
(* The slot tables hold 7 and 11 entries in the format; the model keeps    *)
(* the two tables but shortens them (TEXT_SLOTS, DATA_SLOTS).              *)
(***************************************************************************)
EXTENDS Integers, Sequences, FiniteSets, TLC

VARIABLES
    data,          \* the unpacked header fields of the file being loaded
    header_len,    \* len(data.read(0, 0xe4)), in bytes
    filesize,      \* len(data), in units
    pc,            \* position of the loader
    textSections, dataSections,        \* parseHeader locals
    sorted_carving_sections,
    idx,                               \* position of the carving for-loop
    current_start, current_end,
    bssSections,
    parsed,        \* whether is_valid_for_data called parseHeader
    valid,         \* the value is_valid_for_data returned
    view           \* the fields DOLView.init stores and registers

vars == << data, header_len, filesize, pc, textSections, dataSections,
           sorted_carving_sections, idx, current_start, current_end,
           bssSections, parsed, valid, view >>

-----------------------------------------------------------------------------
(* Format constants *)

MEM_LO == 256
MEM_HI == 259
HEADER_SIZE == 228
TEXT_SLOTS == 2
DATA_SLOTS == 1

(* Bounds of the enumerated inputs *)

MaxOffset == 2       \* file offsets 0..MaxOffset
MaxSize == 1         \* section sizes of the candidate files
AddrSpan == 1        \* section addresses MEM_LO..MEM_LO + AddrSpan
MaxBssSize == 3      \* nominal BSS sizes
MaxFileSize == 3     \* file sizes
CarveSpan == 3       \* obstacle addresses of the carving runs
MaxCarveSize == 2    \* obstacle sizes of the carving runs

-----------------------------------------------------------------------------
(* Pure functions *)

Min(a, b) == IF a <= b THEN a ELSE b

\* list.sort(key = lambda x: x[key]): a stable sort on one field
RECURSIVE sortedBy(_, _)
sortedBy(seq, key) ==
    IF seq = << >> THEN << >>
    ELSE LET n == Len(seq)
             front == sortedBy(SubSeq(seq, 1, n - 1), key)
             x == seq[n]
             p == Cardinality({j \in 1..Len(front) : front[j][key] <= x[key]})
         IN  SubSeq(front, 1, p) \o << x >> \o SubSeq(front, p + 1, Len(front))

\* Faulty variant: an absent slot is skipped instead of ending the scan
RECURSIVE parseSectionsFrom_continue(_, _, _, _)
parseSectionsFrom_continue(i, offsets, addresses, sizes) ==
    IF i > Len(offsets) THEN << >>
    ELSE IF offsets[i] = 0
    THEN parseSectionsFrom_continue(i + 1, offsets, addresses, sizes)
    ELSE << [offset |-> offsets[i], address |-> addresses[i], size |-> sizes[i]] >>
         \o parseSectionsFrom_continue(i + 1, offsets, addresses, sizes)

RECURSIVE parseSectionsFrom(_, _, _, _)
parseSectionsFrom(i, offsets, addresses, sizes) ==
    IF i > Len(offsets) THEN << >>
    ELSE IF offsets[i] = 0 THEN << >>
    ELSE << [offset |-> offsets[i], address |-> addresses[i], size |-> sizes[i]] >>
         \o parseSectionsFrom(i + 1, offsets, addresses, sizes)

parseSections(offsets, addresses, sizes) ==
    parseSectionsFrom(1, offsets, addresses, sizes)

\* The obstacles of the carving: text then data sections, sorted by address
carvingSections(text, dat) == sortedBy(text \o dat, "address")

carving_end(c) == c.address + c.size

\* Faulty variant: the overlap-from-the-left branch is missing
carveBranch_noLeft(c, cs, ce) ==
    IF c.address <= cs /\ carving_end(c) >= ce THEN "annihilated"
    ELSE IF c.address > cs THEN "right"
    ELSE "none"

\* Faulty variant: the containment branch is missing
carveBranch_noAnnihilate(c, cs, ce) ==
    IF c.address <= cs /\ carving_end(c) > cs /\ carving_end(c) < ce THEN "left"
    ELSE IF c.address > cs THEN "right"
    ELSE "none"

\* Faulty variant: the last branch also takes an obstacle starting at the cursor
carveBranch_rightInclusive(c, cs, ce) ==
    IF c.address <= cs /\ carving_end(c) >= ce THEN "annihilated"
    ELSE IF c.address <= cs /\ carving_end(c) > cs /\ carving_end(c) < ce THEN "left"
    ELSE IF c.address >= cs THEN "right"
    ELSE "none"

\* Which branch of the if/elif chain one obstacle takes
carveBranch(c, cs, ce) ==
    IF c.address <= cs /\ carving_end(c) >= ce THEN "annihilated"
    ELSE IF c.address <= cs /\ carving_end(c) > cs /\ carving_end(c) < ce THEN "left"
    ELSE IF c.address > cs THEN "right"
    ELSE "none"

\* Faulty variant: the cursor is not clamped to current_end (no min)
carveOne_noClamp(st, c, ce) ==
    LET b == IF c.address <= st.current_start /\ carving_end(c) >= ce THEN "annihilated"
             ELSE IF /\ c.address <= st.current_start
                     /\ carving_end(c) > st.current_start
                     /\ carving_end(c) < ce THEN "left"
             ELSE IF c.address > st.current_start THEN "right"
             ELSE "none"
        cs == CASE b = "annihilated" -> ce
                [] b = "left" -> carving_end(c)
                [] b = "right" -> carving_end(c)
                [] OTHER -> st.current_start
        out == IF b = "right"
               THEN Append(st.bssSections,
                           [address |-> st.current_start,
                            size |-> c.address - st.current_start])
               ELSE st.bssSections
    IN  [current_start |-> cs, bssSections |-> out,
         stop |-> (b = "annihilated" \/ cs >= ce)]

\* One iteration of the carving loop, the early-out included.
\* st = [current_start, bssSections, stop]; stop means the loop has broken.
carveOne(st, c, ce) ==
    LET b == carveBranch(c, st.current_start, ce)
        cs == CASE b = "annihilated" -> ce
                [] b = "left" -> carving_end(c)
                [] b = "right" -> Min(carving_end(c), ce)
                [] OTHER -> st.current_start
        out == IF b = "right"
               THEN Append(st.bssSections,
                           [address |-> st.current_start,
                            size |-> c.address - st.current_start])
               ELSE st.bssSections
    IN  [current_start |-> cs, bssSections |-> out,
         stop |-> (b = "annihilated" \/ cs >= ce)]

RECURSIVE carveLoop(_, _, _, _)
carveLoop(st, sections, i, ce) ==
    IF i > Len(sections) \/ st.stop THEN st
    ELSE carveLoop(carveOne(st, sections[i], ce), sections, i + 1, ce)

\* "Flush out last section"
flush(cs, ce, out) ==
    IF cs < ce THEN Append(out, [address |-> cs, size |-> ce - cs]) ELSE out

carve(bssAddress, bssSize, sections) ==
    LET ce == bssAddress + bssSize
        st == carveLoop([current_start |-> bssAddress, bssSections |-> << >>,
                         stop |-> FALSE], sections, 1, ce)
    IN  flush(st.current_start, ce, st.bssSections)

parseHeader(d) ==
    LET text == parseSections(d.textOffsets, d.textAddresses, d.textSizes)
        dat == parseSections(d.dataOffsets, d.dataAddresses, d.dataSizes)
    IN  [textSections |-> text,
         dataSections |-> dat,
         bssSections |-> IF d.bssAddress # 0
                         THEN carve(d.bssAddress, d.bssSize, carvingSections(text, dat))
                         ELSE << >>,
         entrypoint |-> d.entrypoint]

\* validateHeader, check by check
hasText(h) == Len(h.textSections) >= 1

\* Faulty variant: the comparison with the file size is reversed
insideFile_flipped(section, size) == ~(section.offset + section.size < size)

insideFile(section, size) == ~(section.offset + section.size > size)

loadable(section) ==
    /\ MEM_LO <= section.address /\ section.address < MEM_HI
    /\ MEM_LO <= section.address + section.size
    /\ section.address + section.size <= MEM_HI

\* Faulty variant: the loop over adjacent pairs stops one pair early
adjacentDisjoint_short(sorted, key) ==
    \A i \in 1..(Len(sorted) - 2) :
        ~(sorted[i][key] + sorted[i].size > sorted[i + 1][key])

\* the adjacent-pair check over a sorted list, on one field
adjacentDisjoint(sorted, key) ==
    \A i \in 1..(Len(sorted) - 1) :
        ~(sorted[i][key] + sorted[i].size > sorted[i + 1][key])

\* Faulty variant: the end of a text section counts as inside it
entrypointValid_inclusive(h) ==
    \E i \in 1..Len(h.textSections) :
        /\ h.textSections[i].address <= h.entrypoint
        /\ h.entrypoint <= h.textSections[i].address + h.textSections[i].size

entrypointValid(h) ==
    \E i \in 1..Len(h.textSections) :
        /\ h.textSections[i].address <= h.entrypoint
        /\ h.entrypoint < h.textSections[i].address + h.textSections[i].size

\* every check of validateHeader but the last (lines 85-122)
sectionsValid(h, size) ==
    LET initializedSections == h.textSections \o h.dataSections
        allSections == initializedSections \o h.bssSections
    IN  /\ hasText(h)
        /\ \A i \in 1..Len(initializedSections) : insideFile(initializedSections[i], size)
        /\ \A i \in 1..Len(allSections) : loadable(allSections[i])
        /\ adjacentDisjoint(sortedBy(initializedSections, "offset"), "offset")
        /\ adjacentDisjoint(sortedBy(allSections, "address"), "address")

validateHeader(h, size) == sectionsValid(h, size) /\ entrypointValid(h)

-----------------------------------------------------------------------------
(* Inputs *)

Offsets == 0..MaxOffset
Addresses == MEM_LO..(MEM_LO + AddrSpan)
Sizes == 0..MaxSize
CarveAddresses == {0} \cup (MEM_LO..(MEM_LO + CarveSpan))
CarveSizes == 0..MaxCarveSize

NoView == [textSections |-> << >>, dataSections |-> << >>, bssSections |-> << >>,
           entrypoint |-> 0, segments |-> << >>]

Idle ==
    /\ header_len = 0 /\ filesize = 0
    /\ textSections = << >> /\ dataSections = << >>
    /\ sorted_carving_sections = << >>
    /\ idx = 0 /\ current_start = 0 /\ current_end = 0
    /\ bssSections = << >>
    /\ parsed = FALSE /\ valid = "none" /\ view = NoView

\* Header fields of the candidate files: every slot may be absent (offset 0);
\* text sections lie anywhere in the file, the data section at its end; the
\* nominal BSS range is absent (address 0) or starts at the lowest or the
\* highest section address, and so is the entry point.
FileHeaders ==
    [textOffsets : [1..TEXT_SLOTS -> Offsets],
     textAddresses : [1..TEXT_SLOTS -> Addresses],
     textSizes : [1..TEXT_SLOTS -> Sizes],
     dataOffsets : [1..DATA_SLOTS -> {0, MaxOffset}],
     dataAddresses : [1..DATA_SLOTS -> Addresses],
     dataSizes : [1..DATA_SLOTS -> Sizes],
     bssAddress : {0, MEM_LO, MEM_LO + AddrSpan},
     bssSize : 0..MaxBssSize,
     entrypoint : {MEM_LO, MEM_LO + AddrSpan}]

\* Header fields of the carving runs: all text slots and possibly the data
\* slot present, obstacles and nominal range anywhere.
CarveHeaders ==
    [textOffsets : [1..TEXT_SLOTS -> {1}],
     textAddresses : [1..TEXT_SLOTS -> CarveAddresses],
     textSizes : [1..TEXT_SLOTS -> CarveSizes],
     dataOffsets : [1..DATA_SLOTS -> {0, 1}],
     dataAddresses : [1..DATA_SLOTS -> CarveAddresses],
     dataSizes : [1..DATA_SLOTS -> CarveSizes],
     bssAddress : CarveAddresses,
     bssSize : 0..MaxBssSize,
     entrypoint : {MEM_LO}]

\* A candidate file is handed to is_valid_for_data
Init ==
    /\ data \in FileHeaders
    /\ pc = "is_valid_for_data"
    /\ Idle

\* The header of a candidate file is handed to parseHeader
InitSections ==
    /\ data \in FileHeaders
    /\ pc = "parseHeader"
    /\ Idle

InitCarve ==
    /\ data \in CarveHeaders
    /\ pc = "parseHeader"
    /\ Idle

-----
(* DOLView.is_valid_for_data and DOLView.init *)

\* Faulty variant: the length of the header read is not checked
is_valid_for_data_unchecked ==
    /\ pc = "is_valid_for_data"
    /\ \E len \in {HEADER_SIZE - 1, HEADER_SIZE}, size \in 0..MaxFileSize :
          /\ len < HEADER_SIZE => size = 0
          /\ header_len' = len
          /\ filesize' = size
          /\ parsed' = TRUE
          /\ valid' = validateHeader(parseHeader(data), size)
    /\ pc' = "init"
    /\ UNCHANGED << data, textSections, dataSections,
                    sorted_carving_sections, idx, current_start, current_end,
                    bssSections, view >>

\* The file is shorter than the header (and than one unit), or holds it.
is_valid_for_data ==
    /\ pc = "is_valid_for_data"
    /\ \E len \in {HEADER_SIZE - 1, HEADER_SIZE}, size \in 0..MaxFileSize :
          /\ len < HEADER_SIZE => size = 0
          /\ header_len' = len
          /\ filesize' = size
          /\ IF len < HEADER_SIZE
             THEN /\ parsed' = FALSE
                  /\ valid' = FALSE
             ELSE /\ parsed' = TRUE
                  /\ valid' = validateHeader(parseHeader(data), size)
    /\ pc' = "init"
    /\ UNCHANGED << data, textSections, dataSections,
                    sorted_carving_sections, idx, current_start, current_end,
                    bssSections, view >>

segmentsOf(sections, name, backed) ==
    [i \in 1..Len(sections) |->
        [address |-> sections[i].address,
         size |-> sections[i].size,
         offset |-> IF backed THEN sections[i].offset ELSE 0,
         length |-> IF backed THEN sections[i].size ELSE 0,
         name |-> << name, i - 1 >>]]

init ==
    /\ pc = "init"
    /\ valid = TRUE
    /\ LET h == parseHeader(data)
       IN  view' = [textSections |-> h.textSections,
                    dataSections |-> h.dataSections,
                    bssSections |-> h.bssSections,
                    entrypoint |-> h.entrypoint,
                    segments |-> segmentsOf(h.textSections, ".text", TRUE)
                                 \o segmentsOf(h.dataSections, ".data", TRUE)
                                 \o segmentsOf(h.bssSections, ".bss", FALSE)]
    /\ pc' = "done"
    /\ UNCHANGED << data, header_len, filesize, textSections, dataSections,
                    sorted_carving_sections, idx, current_start, current_end,
                    bssSections, parsed, valid >>

Next == is_valid_for_data \/ init

Spec == Init /\ [][Next]_vars

-----------------------------------------------------------------------------
(* parseHeader, one step per iteration of the carving loop *)

parseHeaderBegin ==
    /\ pc = "parseHeader"
    /\ LET text == parseSections(data.textOffsets, data.textAddresses, data.textSizes)
           dat == parseSections(data.dataOffsets, data.dataAddresses, data.dataSizes)
       IN  /\ textSections' = text
           /\ dataSections' = dat
           /\ IF data.bssAddress # 0
              THEN /\ sorted_carving_sections' = carvingSections(text, dat)
                   /\ current_start' = data.bssAddress
                   /\ current_end' = data.bssAddress + data.bssSize
                   /\ idx' = 1
                   /\ pc' = "loop"
              ELSE /\ pc' = "return"
                   /\ UNCHANGED << sorted_carving_sections, current_start,
                                   current_end, idx >>
    /\ bssSections' = << >>
    /\ UNCHANGED << data, header_len, filesize, parsed, valid, view >>

\* The body of one loop iteration (lines 38-60) on the obstacle at idx
carveObstacle ==
    /\ LET st == carveOne([current_start |-> current_start,
                           bssSections |-> bssSections, stop |-> FALSE],
                          sorted_carving_sections[idx], current_end)
       IN  /\ current_start' = st.current_start
           /\ bssSections' = st.bssSections
           /\ pc' = IF st.stop THEN "flush" ELSE "loop"
    /\ idx' = idx + 1
    /\ UNCHANGED << data, header_len, filesize, textSections, dataSections,
                    sorted_carving_sections, current_end, parsed, valid, view >>

\* the branch the obstacle at idx takes
branchAt(branch) ==
    /\ pc = "loop"
    /\ idx <= Len(sorted_carving_sections)
    /\ carveBranch(sorted_carving_sections[idx], current_start, current_end) = branch

carveAnnihilated ==
    /\ branchAt("annihilated")
    /\ carveObstacle

carveOverlapLeft ==
    /\ branchAt("left")
    /\ carveObstacle

carveOverlapRight ==
    /\ branchAt("right")
    /\ carveObstacle

carveNoOverlap ==
    /\ branchAt("none")
    /\ carveObstacle

carveLoopEnd ==
    /\ pc = "loop"
    /\ idx > Len(sorted_carving_sections)
    /\ pc' = "flush"
    /\ UNCHANGED << data, header_len, filesize, textSections, dataSections,
                    sorted_carving_sections, idx, current_start, current_end,
                    bssSections, parsed, valid, view >>

carveFlush ==
    /\ pc = "flush"
    /\ bssSections' = flush(current_start, current_end, bssSections)
    /\ pc' = "return"
    /\ UNCHANGED << data, header_len, filesize, textSections, dataSections,
                    sorted_carving_sections, idx, current_start, current_end,
                    parsed, valid, view >>

NextCarve ==
    \/ parseHeaderBegin
    \/ carveAnnihilated
    \/ carveOverlapLeft
    \/ carveOverlapRight
    \/ carveNoOverlap
    \/ carveLoopEnd
    \/ carveFlush

SpecCarve == InitCarve /\ [][NextCarve]_vars

SpecSections == InitSections /\ [][NextCarve]_vars

-----------------------------------------------------------------------------
(* Properties of the carving, checked under SpecCarve *)

Max(a, b) == IF a >= b THEN a ELSE b

extentEnd(s) == s.address + s.size

\* a is an address of the extent [address, address + size)
inExtent(a, s) == s.address <= a /\ a < extentEnd(s)

\* the two extents share an address
overlap(x, y) == Max(x.address, y.address) < Min(extentEnd(x), extentEnd(y))

nominalStart == data.bssAddress
nominalEnd == data.bssAddress + data.bssSize
obstacles == textSections \o dataSections
carved == pc = "return" /\ data.bssAddress # 0

\* the obstacle covers the whole nominal range
covers(c) == c.address <= nominalStart /\ extentEnd(c) >= nominalEnd

\* C1: once parseHeader has carved, every address of the nominal range lies in
\* an obstacle or in exactly one emitted fragment, and no fragment shares an
\* address with another fragment or with an obstacle.
C1_CarvingPartition ==
    carved =>
        /\ \A a \in nominalStart..(nominalEnd - 1) :
              \/ \E i \in 1..Len(obstacles) : inExtent(a, obstacles[i])
              \/ Cardinality({j \in 1..Len(bssSections) : inExtent(a, bssSections[j])}) = 1
        /\ \A j, k \in 1..Len(bssSections) :
              j # k => ~overlap(bssSections[j], bssSections[k])
        /\ \A j \in 1..Len(bssSections), i \in 1..Len(obstacles) :
              ~overlap(bssSections[j], obstacles[i])

\* a carve that split the nominal range around an obstacle inside it
C1_Witness ==
    /\ carved
    /\ Len(bssSections) >= 2
    /\ \E i \in 1..Len(obstacles) :
          /\ obstacles[i].size > 0
          /\ nominalStart < obstacles[i].address
          /\ extentEnd(obstacles[i]) < nominalEnd

\* C2: every emitted fragment is a sub-interval of the nominal range
\* [bssAddress, bssAddress + bssSize).
C2_FragmentsInsideNominal ==
    carved =>
        \A j \in 1..Len(bssSections) :
            /\ nominalStart <= bssSections[j].address
            /\ extentEnd(bssSections[j]) <= nominalEnd

\* C8: if one text or data section covers the whole nominal range, parseHeader
\* returns no BSS section, whatever the other obstacles are.
C8_FullContainment ==
    (carved /\ \E i \in 1..Len(obstacles) : covers(obstacles[i]))
        => bssSections = << >>

\* a non-empty nominal range covered by one obstacle, with another obstacle
\* lying inside it, past its start
C8_Witness ==
    /\ carved
    /\ data.bssSize > 0
    /\ \E i, k \in 1..Len(obstacles) :
          /\ i # k
          /\ covers(obstacles[i])
          /\ obstacles[k].size > 0
          /\ nominalStart < obstacles[k].address
          /\ extentEnd(obstacles[k]) <= nominalEnd
    /\ bssSections = << >>

\* C9: no emitted fragment has length zero, and the fragments are in strictly
\* ascending address order, each ending at or before the start of the next.
C9_FragmentsOrdered ==
    carved =>
        /\ \A j \in 1..Len(bssSections) : bssSections[j].size > 0
        /\ \A j \in 1..(Len(bssSections) - 1) :
              /\ bssSections[j].address < bssSections[j + 1].address
              /\ extentEnd(bssSections[j]) <= bssSections[j + 1].address

\* several fragments although an obstacle of size zero and an obstacle before
\* the nominal range were swept
C9_Witness ==
    /\ carved
    /\ Len(bssSections) >= 2
    /\ \E i \in 1..Len(obstacles) : obstacles[i].size = 0
    /\ \E i \in 1..Len(obstacles) : extentEnd(obstacles[i]) <= nominalStart

\* an obstacle is being processed in this step
processing == pc = "loop" /\ idx' = idx + 1

\* C10 as claimed: while obstacles are processed current_end is not modified,
\* current_start neither decreases nor exceeds current_end, and no obstacle
\* is processed against an exhausted window.
C10_CursorAsClaimed ==
    [][processing =>
         /\ current_end' = current_end
         /\ current_start' >= current_start
         /\ current_start' <= current_end'
         /\ current_start < current_end]_vars

\* C10 as amended: the cursor invariant holds and the loop stops right after
\* the obstacle that exhausts the window; only the first obstacle may meet an
\* exhausted window, namely when bssSize is zero.
C10_Cursor ==
    [][processing =>
         /\ current_end' = current_end
         /\ current_end = data.bssAddress + data.bssSize
         /\ current_start' >= current_start
         /\ current_start' <= current_end'
         /\ (current_start' >= current_end') = (pc' = "flush")
         /\ (current_start < current_end \/ (idx = 1 /\ data.bssSize = 0))]_vars

\* the sweep has moved the cursor and goes on with a live window
C10_Witness ==
    /\ pc = "loop"
    /\ idx > 1
    /\ idx <= Len(sorted_carving_sections)
    /\ data.bssAddress < current_start
    /\ current_start < current_end

-----------------------------------------------------------------------------
(* Properties of parseSections, checked under SpecSections *)

\* the index of the first slot whose offset is zero, or one past the table
firstAbsent(offsets) ==
    IF \E i \in 1..Len(offsets) : offsets[i] = 0
    THEN CHOOSE i \in 1..Len(offsets) :
             offsets[i] = 0 /\ \A k \in 1..(i - 1) : offsets[k] # 0
    ELSE Len(offsets) + 1

\* sections is exactly the slots before the first absent one, in slot order
slotsBeforeAbsent(sections, offsets, addresses, sizes) ==
    /\ Len(sections) = firstAbsent(offsets) - 1
    /\ \A k \in 1..Len(sections) :
          sections[k] = [offset |-> offsets[k], address |-> addresses[k],
                         size |-> sizes[k]]

\* C6: each table decodes to exactly the slots before its first zero offset,
\* whatever the later slots hold, and to all its slots when no offset is zero.
C6_AbsentSlotTermination ==
    pc # "parseHeader" =>
        /\ slotsBeforeAbsent(textSections, data.textOffsets,
                             data.textAddresses, data.textSizes)
        /\ slotsBeforeAbsent(dataSections, data.dataOffsets,
                             data.dataAddresses, data.dataSizes)

\* a table whose first slot is absent and whose later slot is not
C6_Witness ==
    /\ pc # "parseHeader"
    /\ data.textOffsets[1] = 0
    /\ \E i \in 2..TEXT_SLOTS :
          data.textOffsets[i] # 0 /\ data.textSizes[i] # 0
    /\ textSections = << >>

-----------------------------------------------------------------------------
(* Properties of validateHeader and is_valid_for_data, checked under Spec *)

returned == pc # "is_valid_for_data"
header == parseHeader(data)
allSectionsOf(h) == h.textSections \o h.dataSections \o h.bssSections

\* one extent ends at or before the start of the other
apart(x, y) == extentEnd(x) <= y.address \/ extentEnd(y) <= x.address

\* C3: when validateHeader returned True, any two distinct sections among the
\* text, data and BSS sections are apart in address space, sections of size
\* zero included.
C3_NoAddressOverlap ==
    (returned /\ valid = TRUE) =>
        LET all == allSectionsOf(header)
        IN  \A i, j \in 1..Len(all) : i # j => apart(all[i], all[j])

\* an accepted header with text, data and BSS sections, one of size zero
C3_Witness ==
    /\ returned /\ valid = TRUE
    /\ Len(header.textSections) >= 1
    /\ Len(header.dataSections) >= 1
    /\ Len(header.bssSections) >= 1
    /\ \E i \in 1..Len(allSectionsOf(header)) : allSectionsOf(header)[i].size = 0

\* the header passed every check before the entry point check
othersPass == returned /\ parsed /\ sectionsValid(header, filesize)

\* C4 as claimed: an entry point one past the end of a text section is
\* rejected, an entry point at the address of a text section is accepted.
C4_BoundaryAsClaimed ==
    othersPass =>
        LET text == header.textSections
        IN  \A i \in 1..Len(text) :
                /\ data.entrypoint = extentEnd(text[i]) => valid = FALSE
                /\ data.entrypoint = text[i].address => valid = TRUE

\* C4 as amended: an entry point one past the end of a text section is
\* rejected unless a text section of non-zero size starts there, and an entry
\* point at the address of a text section of non-zero size is accepted.
C4_Boundary ==
    othersPass =>
        LET text == header.textSections
        IN  \A i \in 1..Len(text) :
                /\ ( /\ data.entrypoint = extentEnd(text[i])
                     /\ ~\E k \in 1..Len(text) :
                            text[k].address = data.entrypoint /\ text[k].size > 0 )
                   => valid = FALSE
                /\ ( data.entrypoint = text[i].address /\ text[i].size > 0 )
                   => valid = TRUE

\* a header rejected only for an entry point one past the end of a text
\* section of non-zero size
C4_Witness ==
    /\ othersPass
    /\ valid = FALSE
    /\ \E i \in 1..Len(header.textSections) :
          /\ header.textSections[i].size > 0
          /\ data.entrypoint = extentEnd(header.textSections[i])

\* C5: a header accepted with one file size is accepted with every larger one.
C5_FileSizeMonotone ==
    (returned /\ valid = TRUE) =>
        \A larger \in (filesize + 1)..(MaxFileSize + 2) :
            validateHeader(header, larger)

\* a header accepted with a file that ends exactly where its last section ends
C5_Witness ==
    /\ returned /\ valid = TRUE
    /\ filesize < MaxFileSize
    /\ \E i \in 1..Len(header.textSections) :
          /\ header.textSections[i].size > 0
          /\ header.textSections[i].offset + header.textSections[i].size = filesize

\* the file holds fewer than 0xE4 bytes
short == returned /\ header_len < HEADER_SIZE

\* C7 as claimed: with fewer than 0xE4 bytes the header is not decoded and the
\* outcome differs from False, the outcome of a header that fails validation.
C7_DistinctAsClaimed ==
    short => (~parsed /\ valid # FALSE)

\* C7 as amended: with fewer than 0xE4 bytes the header is not decoded and
\* is_valid_for_data returns False, the very value it returns for a full
\* header that fails validation.
C7_ShortRejected ==
    short => (~parsed /\ valid = FALSE)

\* a short file has been rejected
C7_Witness ==
    short /\ valid = FALSE /\ ~parsed

====
